---- MODULE Spec2Model ----
(***************************************************************************)
(* A model of the Lunar Lander game: the lander simulator (lander.rs), the *)
(* terrain generator and collision evaluator (terrain.rs), the explosion   *)
(* particle system (particles.rs) and the session state with its tick and  *)
(* key handlers (game.rs).                                                 *)
(*                                                                         *)
(* Numbers.  The program computes in f32.  The model keeps integers:       *)
(*   - angle: exact f32 values, in units of 2^-28 rad (AngleOne = 1 rad);  *)
(*   - particle lifetime: exact f32 values, in units of 2^-29 s;           *)
(*   - fuel and thrust: exact, in units of 1/8 (every value the handlers   *)
(*     produce is a multiple of 1/8, which f32 holds exactly);             *)
(*   - velocity: units of 1/6000 per second, position: units of 1/360000   *)
(*     pixel, so that one tick (DT = 1/60 s) integrates without a          *)
(*     remainder: position += velocity, velocity.y -= 162;                 *)
(*   - sin, cos, atan: fixed-point series, results scaled by TrigOne.      *)
(* f32 rounding is modelled exactly (RoundF32) for angle and lifetime,     *)
(* where it decides what the code does; velocity and position are the      *)
(* real-number values of the same formulas.                                *)
(***************************************************************************)
EXTENDS Integers, Sequences, FiniteSets, TLC

VARIABLES
    lander,      \* MainState.lander: the LunarLander record
    terrain,     \* MainState.terrain: Terrain.points, a sequence of TerrainPoint
    game_over,   \* MainState.game_over
    explosion,   \* MainState.explosion: None or an Explosion record
    pads,        \* generate_terrain: the pad_start values drawn so far
    event,       \* the handler that ran last (history)
    nticks,      \* number of update calls so far (history, bounded)
    nkeys        \* number of key events / API calls so far (history, bounded)

vars == <<lander, terrain, game_over, explosion, pads, event, nticks, nkeys>>

None == [none |-> TRUE]

----------------------------------------------------------------------------
(* f32 arithmetic on scaled integers *)

Abs(n) == IF n < 0 THEN -n ELSE n

\* The spacing of f32 values around magnitude m: the least power of two q
\* with m / q below 2^24 (24 significant bits).
RECURSIVE Quantum(_, _)
Quantum(m, q) == IF m \div q < 2^24 THEN q ELSE Quantum(m, 2 * q)

\* Round an exact result to the nearest f32 value, ties to even.  The scale
\* is a power of two, so the rounding does not depend on it.
RoundF32(n) ==
    LET m    == Abs(n)
        q    == Quantum(m, 1)
        r    == m % q
        base == m - r
        up   == IF 2 * r > q THEN TRUE
                ELSE IF 2 * r < q THEN FALSE
                ELSE (base \div q) % 2 = 1
        res  == IF up THEN base + q ELSE base
    IN  IF n < 0 THEN -res ELSE res

\* Rust's % on floats is fmod: the remainder of truncated division, with the
\* sign of the dividend; it is exact.
FMod(a, b) == IF a >= 0 THEN a % b ELSE -((-a) % b)

----------------------------------------------------------------------------
(* Trigonometry: f32::sin, f32::cos, f32::atan as fixed-point series *)

AngleOne == 2^28          \* one radian, in angle units
TrigOne  == 2^14          \* the value 1.0 of a sine, cosine or slope

HALF_PI == 421657428      \* pi/2 in angle units
TWO_PI  == 4 * HALF_PI + 1 \* 2*pi in angle units (1686629713)

\* Nearest-integer division, for a positive divisor.
DivRound(a, b) == (a + (b \div 2)) \div b

\* sin(r) for r in [0, pi/2] (angle units): the Taylor series to x^9, in
\* units of 2^-14.
SinQ(r) ==
    LET x  == r \div TrigOne
        x2 == (x * x) \div TrigOne
        t4 == TrigOne - (x2 \div 72)
        t3 == TrigOne - ((x2 * t4) \div TrigOne) \div 42
        t2 == TrigOne - ((x2 * t3) \div TrigOne) \div 20
        t1 == TrigOne - ((x2 * t2) \div TrigOne) \div 6
    IN  (x * t1) \div TrigOne

\* sin of any angle (angle units), scaled by TrigOne.
Sin(a) ==
    LET n == a % TWO_PI
        k == n \div HALF_PI
        r == n % HALF_PI
    IN  CASE k = 0 -> SinQ(r)
          [] k = 1 -> SinQ(HALF_PI - r)
          [] k = 2 -> -SinQ(r)
          [] k = 3 -> -SinQ(HALF_PI - r)
          [] OTHER -> 0

Cos(a) == Sin(((a % TWO_PI) + HALF_PI) % TWO_PI)

\* atan(w) for |w| <= tan(pi/8), w scaled by TrigOne: the series to w^9;
\* the result in units of 2^-14 rad.
AtanSmall(w) ==
    LET w2 == (w * w) \div TrigOne
        t4 == (TrigOne \div 7) - ((w2 * (TrigOne \div 9)) \div TrigOne)
        t3 == (TrigOne \div 5) - ((w2 * t4) \div TrigOne)
        t2 == (TrigOne \div 3) - ((w2 * t3) \div TrigOne)
        t1 == TrigOne - ((w2 * t2) \div TrigOne)
    IN  (w * t1) \div TrigOne

\* atan(num / den) for num >= 0, den > 0, in units of 2^-14 rad.
AtanPos(num, den) ==
    LET quarter == HALF_PI \div (2 * TrigOne)
        half    == HALF_PI \div TrigOne
    IN  IF 5 * num <= 2 * den
        THEN AtanSmall((num * TrigOne) \div den)
        ELSE IF 2 * num <= 5 * den
        THEN quarter + AtanSmall(DivRound((num - den) * TrigOne, num + den))
        ELSE half - AtanSmall((den * TrigOne) \div num)

\* (dy / dx).atan() in angle units; dx > 0 in every terrain.
Atan(dy, dx) == IF dy >= 0 THEN AtanPos(dy, dx) * TrigOne
                ELSE -(AtanPos(-dy, dx) * TrigOne)

----------------------------------------------------------------------------
(* Units and program constants *)

TicksPerSecond == 60      \* DT = 1.0 / 60.0
VelOne == 100 * TicksPerSecond          \* velocity units per (unit / second)
PosOne == VelOne * TicksPerSecond       \* position units per pixel
FuelOne == 8              \* fuel and thrust units per 1.0

GRAVITY == 162            \* 1.62, in hundredths
THRUST_POWER == 35        \* 3.5, in tenths
MAX_SAFE_LANDING_VELOCITY == 2          \* 2.0
MAX_SAFE_LANDING_ANGLE == 40265320      \* 0.15f32, in angle units
SCREEN_WIDTH == 800       \* the clamp bound of position.x, in pixels
START_X == 400            \* LunarLander::new(400.0, 100.0)
START_Y == 100
FULL_FUEL == 100          \* fuel: 100.0
TWO_PI_F32 == 1686629760  \* 2.0 * std::f32::consts::PI as f32, in angle units
ROTATE_STEP == 26843546   \* 0.1f32, in angle units

Clamp(v, lo, hi) == IF v < lo THEN lo ELSE IF v > hi THEN hi ELSE v

----------------------------------------------------------------------------
(* lander.rs: LunarLander *)

LunarLanderNew(x, y) ==
    [position |-> [x |-> x * PosOne, y |-> y * PosOne],
     velocity |-> [x |-> 0, y |-> 0],
     angle |-> 0,
     thrust |-> 0,
     fuel |-> FULL_FUEL * FuelOne,
     landing_safety_checked |-> FALSE,
     landed_safely |-> FALSE]

\* thrust * trig * THRUST_POWER * DT, in velocity units.
ThrustStep(thrust, trig) ==
    DivRound(thrust * trig * THRUST_POWER * (VelOne \div TicksPerSecond),
             FuelOne * TrigOne * 10)

\* GRAVITY * DT, in velocity units.
GravityStep == (GRAVITY * VelOne) \div (100 * TicksPerSecond)

\* A burn scaled by DT.
FuelAfterBurnPerSecond(fuel, thrust) == fuel - ((thrust \div 2) \div TicksPerSecond)

\* A burn that adds to the fuel.
FuelAfterRefill(fuel, thrust) == fuel + (thrust \div 2)

\* self.fuel -= self.thrust * 0.5
FuelAfterBurn(fuel, thrust) == fuel - (thrust \div 2)

\* An update that stores the integrated position.x as it is.
LanderUpdateUnclamped(l) ==
    LET thrusting == l.fuel > 0 /\ l.thrust > 0
        vx   == IF thrusting
                THEN l.velocity.x - ThrustStep(l.thrust, Cos(l.angle))
                ELSE l.velocity.x
        vy0  == IF thrusting
                THEN l.velocity.y + ThrustStep(l.thrust, Sin(l.angle))
                ELSE l.velocity.y
        fuel == IF thrusting THEN FuelAfterBurn(l.fuel, l.thrust) ELSE l.fuel
        vy   == vy0 - GravityStep
    IN  [l EXCEPT !.velocity = [x |-> vx, y |-> vy],
                  !.fuel = fuel,
                  !.position = [x |-> l.position.x + vx,
                                y |-> l.position.y - vy]]

LanderUpdate(l) ==
    LET thrusting == l.fuel > 0 /\ l.thrust > 0
        vx   == IF thrusting
                THEN l.velocity.x - ThrustStep(l.thrust, Cos(l.angle))
                ELSE l.velocity.x
        vy0  == IF thrusting
                THEN l.velocity.y + ThrustStep(l.thrust, Sin(l.angle))
                ELSE l.velocity.y
        fuel == IF thrusting THEN FuelAfterBurn(l.fuel, l.thrust) ELSE l.fuel
        vy   == vy0 - GravityStep
        px   == l.position.x + vx
        py   == l.position.y - vy
    IN  [l EXCEPT !.velocity = [x |-> vx, y |-> vy],
                  !.fuel = fuel,
                  !.position = [x |-> Clamp(px, 0, SCREEN_WIDTH * PosOne),
                                y |-> py]]

\* The offset of a local-frame point (lx, ly), in pixels, rotated by the
\* angle: position units.
LegOffset(lx, ly, c, s) ==
    [x |-> ((lx * c - ly * s) * (PosOne \div 64)) \div (TrigOne \div 64),
     y |-> ((lx * s + ly * c) * (PosOne \div 64)) \div (TrigOne \div 64)]

GetLegsPoints(l) ==
    LET c == Cos(l.angle)
        s == Sin(l.angle)
        left  == LegOffset(-15, -5, c, s)
        right == LegOffset(15, -5, c, s)
    IN  <<[x |-> l.position.x + left.x, y |-> l.position.y + left.y],
          [x |-> l.position.x + right.x, y |-> l.position.y + right.y]>>

\* A thrust setter that stores the requested level as it is.
ApplyThrustUnclamped(l, amount) ==
    [l EXCEPT !.thrust = IF l.fuel > 0 THEN amount ELSE 0]

ApplyThrust(l, amount) ==
    [l EXCEPT !.thrust = IF l.fuel > 0 THEN Clamp(amount, 0, FuelOne) ELSE 0]

Rotate(l, amount) ==
    [l EXCEPT !.angle = FMod(RoundF32(l.angle + amount), TWO_PI_F32)]

\* A speed test that excludes the bound itself.
VelocityStrictlyWithin(v, limit) ==
    /\ Abs(v.x) < limit * VelOne
    /\ Abs(v.y) < limit * VelOne
    /\ v.x * v.x + v.y * v.y < (limit * VelOne) * (limit * VelOne)

\* self.velocity.length() <= MAX_SAFE_LANDING_VELOCITY
VelocityWithin(v, limit) ==
    /\ Abs(v.x) <= limit * VelOne
    /\ Abs(v.y) <= limit * VelOne
    /\ v.x * v.x + v.y * v.y <= (limit * VelOne) * (limit * VelOne)

\* (self.angle - surface_angle).abs() <= MAX_SAFE_LANDING_ANGLE
AngleWithin(angle, surface_angle, limit) ==
    Abs(RoundF32(angle - surface_angle)) <= limit

\* A safety check that recomputes the verdict on every call.
CheckLandingSafetyEveryCall(l, surface_angle) ==
    [l EXCEPT
        !.landed_safely =
            /\ VelocityWithin(l.velocity, MAX_SAFE_LANDING_VELOCITY)
            /\ AngleWithin(l.angle, surface_angle, MAX_SAFE_LANDING_ANGLE),
        !.landing_safety_checked = TRUE]

CheckLandingSafety(l, surface_angle) ==
    IF ~l.landing_safety_checked
    THEN [l EXCEPT
            !.landed_safely =
                /\ VelocityWithin(l.velocity, MAX_SAFE_LANDING_VELOCITY)
                /\ AngleWithin(l.angle, surface_angle, MAX_SAFE_LANDING_ANGLE),
            !.landing_safety_checked = TRUE]
    ELSE l

IsLandedSafely(l) == l.landed_safely

----------------------------------------------------------------------------
(* terrain.rs: generate_terrain, Terrain::check_collision, point_in_segment *)

NUM_POINTS == 100         \* let num_points = 100
NUM_PADS == 3             \* for _ in 0..3
PAD_WIDTH == 5            \* let pad_width = 5
PAD_START_MIN == 5        \* rng.gen_range(5..90)
PAD_START_END == 90
HEIGHT_MIN == 400         \* rng.gen_range(400.0..500.0)
HEIGHT_END == 500

\* The point of index i (from 0, as in the code) of a point sequence.
Pt(points, i) == points[i + 1]

\* i as f32 * dx with dx = 800.0 / 99, in position units (to within the
\* f32 rounding of the product; the last point lies just below 800).
TerrainX(i) == i * 2909090 + (i * 767) \div 1000

\* The first loop of generate_terrain: heights[i] is the i-th value drawn
\* from the random generator, in pixels.
TerrainPoints(heights) ==
    [k \in 1..NUM_POINTS |->
        [position |-> [x |-> TerrainX(k - 1), y |-> heights[k] * PosOne],
         is_landing_pad |-> FALSE]]

\* One iteration of the landing-pad loop, for the drawn pad_start.
AddPad(points, pad_start) ==
    LET pad_height == Pt(points, pad_start).position.y
    IN  [k \in 1..Len(points) |->
            IF k - 1 >= pad_start /\ k - 1 < pad_start + PAD_WIDTH
            THEN [points[k] EXCEPT !.position.y = pad_height,
                                   !.is_landing_pad = TRUE]
            ELSE points[k]]

RECURSIVE AddPads(_, _)
AddPads(points, starts) ==
    IF starts = <<>> THEN points
    ELSE AddPads(AddPad(points, Head(starts)), Tail(starts))

GenerateTerrain(heights, starts) == AddPads(TerrainPoints(heights), starts)

\* a * b / c for 0 <= a <= c, without leaving 32 bits: b is taken in
\* base-512 digits (the result is within 512 units, 0.0015 pixel, of the
\* quotient).
RECURSIVE MulDiv(_, _, _)
MulDiv(a, b, c) ==
    IF b < 0 THEN -MulDiv(a, -b, c)
    ELSE IF b < 512 THEN (a * b) \div c
    ELSE MulDiv(a, b \div 512, c) * 512 + (a * (b % 512)) \div c

Min(a, b) == IF a < b THEN a ELSE b
Max(a, b) == IF a > b THEN a ELSE b

point_in_segment(point, p1, p2) ==
    IF point.x < Min(p1.x, p2.x) \/ point.x > Max(p1.x, p2.x)
    THEN FALSE
    ELSE LET interpolated_y ==
                 p1.y + MulDiv(point.x - p1.x, p2.y - p1.y, p2.x - p1.x)
         IN  point.y >= interpolated_y

\* ((p2.y - p1.y) / (p2.x - p1.x)).atan()
SurfaceAngle(p1, p2) ==
    Atan((p2.y - p1.y) \div 1000, (p2.x - p1.x) \div 1000)

\* The segments leg point `leg` lies in, by index.
SegmentsHit(points, leg) ==
    {i \in 0..(Len(points) - 2) :
        point_in_segment(leg, Pt(points, i).position, Pt(points, i + 1).position)}

SetMin(S) == CHOOSE m \in S : \A n \in S : m <= n

\* A choice that lets the right leg's first segment win over the left's.
FirstOfRightLeg(h1, h2) ==
    IF h2 # {} THEN <<2, SetMin(h2)>>
    ELSE IF h1 # {} THEN <<1, SetMin(h1)>>
    ELSE <<>>

\* The (leg, segment) pair the nested loops of check_collision stop at,
\* given the segments each leg lies in: legs in order, segments in
\* ascending index; <<>> when no pair matches.
FirstOf(h1, h2) ==
    IF h1 # {} THEN <<1, SetMin(h1)>>
    ELSE IF h2 # {} THEN <<2, SetMin(h2)>>
    ELSE <<>>

\* A search that tests the left leg only.
HitOfLeftLeg(points, legs) ==
    FirstOf(SegmentsHit(points, legs[1]), {})

HitOfLegs(points, legs) ==
    FirstOf(SegmentsHit(points, legs[1]), SegmentsHit(points, legs[2]))

FirstHit(points, l) == HitOfLegs(points, GetLegsPoints(l))

\* A loop body that returns true without calling the safety check.
CollisionAtUnchecked(points, l, hit) ==
    [collided |-> hit # <<>>, lander |-> l]

\* The body of the loops once the pair is known: the returned bool and the
\* lander afterwards.
CollisionAt(points, l, hit) ==
    IF hit = <<>>
    THEN [collided |-> FALSE, lander |-> l]
    ELSE [collided |-> TRUE,
          lander |-> CheckLandingSafety(l,
                        SurfaceAngle(Pt(points, hit[2]).position,
                                     Pt(points, hit[2] + 1).position))]

\* Terrain::check_collision
CheckCollision(points, l) == CollisionAt(points, l, FirstHit(points, l))

----------------------------------------------------------------------------
(* particles.rs: Particle, Explosion *)

LifeOne == 2^29           \* one second of particle lifetime
PARTICLE_DT == 8947849    \* const DT: f32 = 1.0 / 60.0, in lifetime units
NUM_PARTICLES == 100      \* for _ in 0..100
PARTICLE_GRAVITY == 1     \* self.velocity.y -= 1.0

\* Particle::new for one draw of the random generator: an angle in
\* [0, 2*pi) (angle units), a speed in [50, 200) (pixels per second) and a
\* lifetime in [0.5, 1.5) (lifetime units); x, y in position units.
ParticleNew(x, y, draw) ==
    [position |-> [x |-> x, y |-> y],
     velocity |->
        [x |-> (draw.speed * Cos(draw.angle) * (VelOne \div 16)) \div (TrigOne \div 16),
         y |-> (draw.speed * Sin(draw.angle) * (VelOne \div 16)) \div (TrigOne \div 16)],
     lifetime |-> draw.lifetime,
     initial_lifetime |-> draw.lifetime]

\* A particle update that moves the particle but never ages it.
ParticleUpdateAgeless(p) ==
    [p EXCEPT !.position = [x |-> p.position.x + p.velocity.x,
                            y |-> p.position.y + p.velocity.y],
              !.velocity.y = p.velocity.y - PARTICLE_GRAVITY * VelOne]

ParticleUpdate(p) ==
    [p EXCEPT !.position = [x |-> p.position.x + p.velocity.x,
                            y |-> p.position.y + p.velocity.y],
              !.lifetime = RoundF32(p.lifetime - PARTICLE_DT),
              !.velocity.y = p.velocity.y - PARTICLE_GRAVITY * VelOne]

IsAlive(p) == p.lifetime > 0

\* Explosion::new: draws[k] is what the generator yields for particle k.
ExplosionNew(x, y, draws) ==
    [particles |-> [k \in 1..NUM_PARTICLES |-> ParticleNew(x, y, draws[k])],
     notified_finished |-> FALSE]

IsFinished(e) == e.particles = <<>>

\* A retain that keeps every particle.
RetainAll(particles) == particles

\* self.particles.retain(|p| p.is_alive())
Retain(particles) == SelectSeq(particles, IsAlive)

ExplosionUpdate(e) ==
    [particles |->
        Retain([k \in 1..Len(e.particles) |-> ParticleUpdate(e.particles[k])]),
     notified_finished |->
        IF IsFinished(e) /\ ~e.notified_finished THEN TRUE
        ELSE e.notified_finished]

----------------------------------------------------------------------------
(* Bounds and the values drawn for the random generator *)

MaxExplosionTicks == 93   \* update calls explored on one explosion
MaxTicks == 4             \* ticks explored from an initial state
MaxKeys == 2              \* key events (or lander calls) explored
MaxFlightTicks == 1300    \* ticks explored on a flight from the start
MaxFlightKeys == 2        \* key-downs explored on a flight
KeyWindow == 1            \* last tick at which a flight's key goes down
MaxDescentKeys == 17      \* key-downs explored before a descent

\* The handler that ran last, its argument, and game_over as it found it.
Event(kind, arg, over) == [kind |-> kind, arg |-> arg, over |-> over]

\* Lifetimes in [0.5, 1.5): the least, the greatest f32 the generator
\* yields (1.5 - 2^-23), and values between.
LifetimeDraws ==
    {LifeOne \div 2, (3 * LifeOne) \div 4, LifeOne, (3 * LifeOne) \div 2 - 64}

SampleDraws ==
    {[angle |-> 0, speed |-> 50, lifetime |-> t] : t \in LifetimeDraws}
    \cup {[angle |-> 5 * AngleOne, speed |-> 199, lifetime |-> t] :
            t \in {LifeOne \div 2, (3 * LifeOne) \div 2 - 64}}

\* The draws of one explosion: the first n particles get draw a, the
\* others draw b.
ParticleDraws(samples, splits) ==
    {[k \in 1..NUM_PARTICLES |-> IF k <= n THEN a ELSE b] :
        a \in samples, b \in samples, n \in splits}

----------------------------------------------------------------------------
(* The explosion alone: Explosion::new, then update calls *)

InitExplosion ==
    /\ lander = LunarLanderNew(START_X, START_Y)
    /\ terrain = <<>>
    /\ game_over = FALSE
    /\ \E d \in ParticleDraws(SampleDraws, {1, 50}) :
          explosion = ExplosionNew(100 * PosOne, 100 * PosOne, d)
    /\ pads = <<>>
    /\ event = Event("new", 0, FALSE)
    /\ nticks = 0
    /\ nkeys = 0

ExplosionTick ==
    /\ nticks < MaxExplosionTicks
    /\ explosion' = ExplosionUpdate(explosion)
    /\ nticks' = nticks + 1
    /\ event' = Event("update", 0, game_over)
    /\ UNCHANGED <<lander, terrain, game_over, pads, nkeys>>

NextExplosion == ExplosionTick

SpecExplosion == InitExplosion /\ [][NextExplosion]_vars

----------------------------------------------------------------------------
(* game.rs: MainState, its update and key handlers, on a session record *)

KeyCodes == {"Up", "Left", "Right", "Space", "R", "Other"}

MainStateNew(points) ==
    [lander |-> LunarLanderNew(START_X, START_Y),
     terrain |-> points,
     game_over |-> FALSE,
     explosion |-> None]

\* A collision branch that leaves the session as it was.
AfterCollisionIgnored(ms, cc, draws) ==
    IF cc.collided THEN ms ELSE [ms EXCEPT !.lander = cc.lander]

\* The branch of update taken on the result cc of check_collision; draws
\* is what the random generator yields should an explosion be created.
AfterCollisionCheck(ms, cc, draws) ==
    IF cc.collided
    THEN [ms EXCEPT
            !.lander = cc.lander,
            !.game_over = TRUE,
            !.explosion =
                IF ~IsLandedSafely(cc.lander)
                THEN ExplosionNew(cc.lander.position.x,
                                  cc.lander.position.y, draws)
                ELSE ms.explosion]
    ELSE [ms EXCEPT !.lander = cc.lander]

\* An update that, once the game is over, replaces the explosion by a new
\* one on every tick.
MainStateUpdateReexploding(ms, draws) ==
    IF ~ms.game_over
    THEN AfterCollisionCheck(
             ms, CheckCollision(ms.terrain, LanderUpdate(ms.lander)), draws)
    ELSE IF ms.explosion # None
    THEN [ms EXCEPT !.explosion =
            ExplosionNew(ms.lander.position.x, ms.lander.position.y, draws)]
    ELSE ms

\* An update that advances the lander whether or not the game is over.
MainStateUpdateUnfrozen(ms, draws) ==
    AfterCollisionCheck(
        ms, CheckCollision(ms.terrain, LanderUpdate(ms.lander)), draws)

\* EventHandler::update
MainStateUpdate(ms, draws) ==
    IF ~ms.game_over
    THEN AfterCollisionCheck(
             ms, CheckCollision(ms.terrain, LanderUpdate(ms.lander)), draws)
    ELSE IF ms.explosion # None
    THEN [ms EXCEPT !.explosion = ExplosionUpdate(ms.explosion)]
    ELSE ms

\* A reset that leaves the explosion in place.
ResetKeepsExplosion(ms) ==
    [ms EXCEPT !.lander = LunarLanderNew(START_X, START_Y),
               !.game_over = FALSE]

Reset(ms) ==
    [ms EXCEPT !.lander = LunarLanderNew(START_X, START_Y),
               !.game_over = FALSE,
               !.explosion = None]

\* A key-down handler that ignores every key, R too, once the game is over.
KeyDownEventDeafWhenOver(ms, key) ==
    IF ~ms.game_over
    THEN CASE key = "Up"    -> [ms EXCEPT !.lander = ApplyThrust(ms.lander, FuelOne)]
           [] key = "Left"  -> [ms EXCEPT !.lander = Rotate(ms.lander, -ROTATE_STEP)]
           [] key = "Right" -> [ms EXCEPT !.lander = Rotate(ms.lander, ROTATE_STEP)]
           [] key = "Space" -> [ms EXCEPT !.lander = ApplyThrust(ms.lander, FuelOne \div 2)]
           [] key = "R"     -> Reset(ms)
           [] OTHER         -> ms
    ELSE ms

KeyDownEvent(ms, key) ==
    IF ~ms.game_over
    THEN CASE key = "Up"    -> [ms EXCEPT !.lander = ApplyThrust(ms.lander, FuelOne)]
           [] key = "Left"  -> [ms EXCEPT !.lander = Rotate(ms.lander, -ROTATE_STEP)]
           [] key = "Right" -> [ms EXCEPT !.lander = Rotate(ms.lander, ROTATE_STEP)]
           [] key = "Space" -> [ms EXCEPT !.lander = ApplyThrust(ms.lander, FuelOne \div 2)]
           [] key = "R"     -> Reset(ms)
           [] OTHER         -> ms
    ELSE IF key = "R" THEN Reset(ms)
    ELSE ms

\* A key-up handler that does nothing.
KeyUpEventIgnored(ms, key) == ms

KeyUpEvent(ms, key) ==
    IF ~ms.game_over /\ key \in {"Up", "Space"}
    THEN [ms EXCEPT !.lander = ApplyThrust(ms.lander, 0)]
    ELSE ms

----------------------------------------------------------------------------
(* Free fall: the lander of a new session after c ticks with no key       *)
(* pressed.  The sums of LanderUpdate's steps, in closed form.            *)

Fallen(c) ==
    LET new == LunarLanderNew(START_X, START_Y)
    IN  [new EXCEPT
            !.velocity = [x |-> 0, y |-> -(GravityStep * c)],
            !.position = [x |-> new.position.x,
                          y |-> new.position.y
                                + GravityStep * ((c * (c + 1)) \div 2)]]

\* The number of ticks of free fall two ticks before the one that collides.
FallTicks(points) ==
    CHOOSE c \in 1..2000 :
        /\ ~CheckCollision(points, Fallen(c + 1)).collided
        /\ CheckCollision(points, Fallen(c + 2)).collided

----------------------------------------------------------------------------
(* The values drawn for the terrain *)

\* Heights in [400, 500), in pixels: two sawtooth profiles.
SawtoothHeights ==
    [k \in 1..NUM_POINTS |-> HEIGHT_MIN + ((37 * k) % (HEIGHT_END - HEIGHT_MIN))]

HeightDraws ==
    {SawtoothHeights,
     [k \in 1..NUM_POINTS |-> HEIGHT_MIN + ((k * k + 3 * k) % (HEIGHT_END - HEIGHT_MIN))]}

\* Pad starts in 5..89: the least, the greatest, neighbours that overlap,
\* and the points under the start position.
PadStartDraws == {PAD_START_MIN, 7, 9, 47, 50, PAD_START_END - 1}

----------------------------------------------------------------------------
(* Terrain generation alone: the points, then the pad loop, pad by pad *)

InitTerrain ==
    /\ lander = LunarLanderNew(START_X, START_Y)
    /\ \E h \in HeightDraws : terrain = TerrainPoints(h)
    /\ game_over = FALSE
    /\ explosion = None
    /\ pads = <<>>
    /\ event = Event("new", 0, FALSE)
    /\ nticks = 0
    /\ nkeys = 0

TerrainAddPad ==
    /\ Len(pads) < NUM_PADS
    /\ \E pad_start \in PadStartDraws :
          /\ terrain' = AddPad(terrain, pad_start)
          /\ pads' = Append(pads, pad_start)
          /\ event' = Event("add_pad", pad_start, FALSE)
    /\ UNCHANGED <<lander, game_over, explosion, nticks, nkeys>>

NextTerrain == TerrainAddPad

SpecTerrain == InitTerrain /\ [][NextTerrain]_vars

----------------------------------------------------------------------------
(* The session: MainState driven by ticks and key events *)

SessionDraws ==
    ParticleDraws({[angle |-> 0, speed |-> 50, lifetime |-> LifeOne \div 2]}, {50})
    \cup ParticleDraws({[angle |-> 5 * AngleOne, speed |-> 199,
                         lifetime |-> (3 * LifeOne) \div 2 - 64]}, {50})

SessionPads == <<47, 9, 7>>

SessionTerrains == {GenerateTerrain(h, SessionPads) : h \in HeightDraws}

\* The sessions explored start at the constructed session and at the
\* session after free fall up to two ticks above the collision.
SessionStarts(points) ==
    {[MainStateNew(points) EXCEPT !.lander = l] :
        l \in {Fallen(0), Fallen(FallTicks(points))}}

Ms == [lander |-> lander, terrain |-> terrain, game_over |-> game_over,
       explosion |-> explosion]

SetMs(ms) ==
    /\ lander' = ms.lander
    /\ terrain' = ms.terrain
    /\ game_over' = ms.game_over
    /\ explosion' = ms.explosion

Init ==
    /\ \E points \in SessionTerrains : \E ms \in SessionStarts(points) :
          /\ lander = ms.lander
          /\ terrain = ms.terrain
          /\ game_over = ms.game_over
          /\ explosion = ms.explosion
    /\ pads = SessionPads
    /\ event = Event("new", 0, FALSE)
    /\ nticks = 0
    /\ nkeys = 0

Update ==
    /\ nticks < MaxTicks
    /\ \E draws \in SessionDraws : SetMs(MainStateUpdate(Ms, draws))
    /\ nticks' = nticks + 1
    /\ event' = Event("update", 0, game_over)
    /\ UNCHANGED <<pads, nkeys>>

KeyDown ==
    /\ nkeys < MaxKeys
    /\ \E key \in KeyCodes :
          /\ SetMs(KeyDownEvent(Ms, key))
          /\ event' = Event("key_down", key, game_over)
    /\ nkeys' = nkeys + 1
    /\ UNCHANGED <<pads, nticks>>

KeyUp ==
    /\ nkeys < MaxKeys
    /\ \E key \in KeyCodes :
          /\ SetMs(KeyUpEvent(Ms, key))
          /\ event' = Event("key_up", key, game_over)
    /\ nkeys' = nkeys + 1
    /\ UNCHANGED <<pads, nticks>>

Next == Update \/ KeyDown \/ KeyUp

Spec == Init /\ [][Next]_vars

----------------------------------------------------------------------------
(* A flight from the start: a new session, the thrust keys pressed in the *)
(* first ticks and held, then ticks down to the ground and beyond         *)

FlightKeys == {"Up", "Space"}

InitFlight ==
    /\ \E points \in SessionTerrains :
          /\ lander = MainStateNew(points).lander
          /\ terrain = MainStateNew(points).terrain
          /\ game_over = MainStateNew(points).game_over
          /\ explosion = MainStateNew(points).explosion
    /\ pads = SessionPads
    /\ event = Event("new", 0, FALSE)
    /\ nticks = 0
    /\ nkeys = 0

FlightUpdate ==
    /\ nticks < MaxFlightTicks
    /\ \E draws \in SessionDraws : SetMs(MainStateUpdate(Ms, draws))
    /\ nticks' = nticks + 1
    /\ event' = Event("update", 0, game_over)
    /\ UNCHANGED <<pads, nkeys>>

FlightKeyDown ==
    /\ nkeys < MaxFlightKeys
    /\ nticks <= KeyWindow
    /\ \E key \in FlightKeys :
          /\ SetMs(KeyDownEvent(Ms, key))
          /\ event' = Event("key_down", key, game_over)
    /\ nkeys' = nkeys + 1
    /\ UNCHANGED <<pads, nticks>>

NextFlight == FlightUpdate \/ FlightKeyDown

SpecFlight == InitFlight /\ [][NextFlight]_vars

\* Without a key, the lander falls as Fallen says until it hits the ground,
\* which it does on tick FallTicks + 2.
FreeFallClosedForm ==
    /\ (nkeys = 0 /\ ~game_over) => lander = Fallen(nticks)
    /\ (nkeys = 0 /\ game_over /\ event.kind = "update" /\ ~event.over)
          => nticks = FallTicks(terrain) + 2

----------------------------------------------------------------------------
(* A descent: a new session, Right key-downs and then, or not, the Up key *)
(* before the first tick (the thrust turned upwards), then ticks without  *)
(* end.  Here nticks counts the ticks modulo 2.  The event loop calls     *)
(* update on every frame: a tick is always possible and is weakly fair.   *)

DescentKeys == {"Up", "Right"}

InitDescent ==
    /\ lander = MainStateNew(GenerateTerrain(SawtoothHeights, SessionPads)).lander
    /\ terrain = MainStateNew(GenerateTerrain(SawtoothHeights, SessionPads)).terrain
    /\ game_over = FALSE
    /\ explosion = None
    /\ pads = SessionPads
    /\ event = Event("new", 0, FALSE)
    /\ nticks = 0
    /\ nkeys = 0

DescentKeyDown ==
    /\ nkeys < MaxDescentKeys
    /\ event.kind # "update"
    /\ lander.thrust = 0
    /\ \E key \in DescentKeys :
          /\ SetMs(KeyDownEvent(Ms, key))
          /\ event' = Event("key_down", key, game_over)
    /\ nkeys' = nkeys + 1
    /\ UNCHANGED <<pads, nticks>>

DescentUpdate ==
    /\ \E draws \in SessionDraws : SetMs(MainStateUpdate(Ms, draws))
    /\ event' = Event("update", 0, game_over)
    /\ nticks' = (nticks + 1) % 2
    /\ UNCHANGED <<pads, nkeys>>

\* What every step of DescentUpdate, and no other step, does to nticks.
FrameDrawn == nticks' = (nticks + 1) % 2

NextDescent == DescentUpdate \/ DescentKeyDown

SpecDescent ==
    InitDescent /\ [][NextDescent]_vars /\ WF_nticks(FrameDrawn)

----------------------------------------------------------------------------
(* The lander alone: a LunarLander whose public fields velocity and angle *)
(* the caller has set, driven through its methods                         *)

\* Velocities of magnitude 0, 1.0, 2.0 (twice), just above 2.0, and 5.0
\* (down to the right, up to the left).
VelocityDraws ==
    {[x |-> 0, y |-> 0],
     [x |-> 0, y |-> -VelOne],
     [x |-> 0, y |-> -(2 * VelOne)],
     [x |-> (6 * VelOne) \div 5, y |-> -((8 * VelOne) \div 5)],
     [x |-> 0, y |-> -(2 * VelOne) - 1],
     [x |-> 3 * VelOne, y |-> -(4 * VelOne)],
     [x |-> -(3 * VelOne), y |-> 4 * VelOne]}

\* Positions, in position units: the start, a point at the top of the
\* screen just right of x = 0, a point just left of x = 800.
PositionDraws ==
    {[x |-> START_X * PosOne, y |-> START_Y * PosOne],
     [x |-> 100, y |-> 0],
     [x |-> SCREEN_WIDTH * PosOne - 100, y |-> START_Y * PosOne]}

\* Angles 0, 0.05f32, 0.15f32 and the next f32 above 0.15f32.
AngleDraws == {0, 13421773, MAX_SAFE_LANDING_ANGLE, MAX_SAFE_LANDING_ANGLE + 4}

\* Surface angles: a flat segment, a slope of -0.1 rad, a slope of 37 / 8.
SurfaceAngleDraws == {0, -ROTATE_STEP, Atan(37, 8)}

\* Requested thrust levels: below 0, 0, 0.25, 0.5, 1.0, above 1.
ThrustDraws == {-(FuelOne \div 2), 0, FuelOne \div 4, FuelOne \div 2, FuelOne,
                (3 * FuelOne) \div 2}

RotateDraws == {-ROTATE_STEP, ROTATE_STEP, AngleOne}

\* Fuel levels, in fuel units: 0.5 and 0.25, one full burn from the end.
FuelDraws == {FuelOne \div 2, FuelOne \div 4}

\* The landers explored: every velocity with every angle at the start,
\* every velocity at every position, every fuel level at rest.
LanderDraws ==
    {[LunarLanderNew(START_X, START_Y) EXCEPT !.velocity = v, !.angle = a] :
        v \in VelocityDraws, a \in AngleDraws}
    \cup {[LunarLanderNew(START_X, START_Y) EXCEPT !.position = pos, !.velocity = v] :
        pos \in PositionDraws, v \in VelocityDraws}
    \cup {[LunarLanderNew(START_X, START_Y) EXCEPT !.fuel = f] : f \in FuelDraws}

InitLander ==
    /\ lander \in LanderDraws
    /\ terrain = <<>>
    /\ game_over = FALSE
    /\ explosion = None
    /\ pads = <<>>
    /\ event = Event("new", 0, FALSE)
    /\ nticks = 0
    /\ nkeys = 0

LanderTick ==
    /\ nticks < MaxTicks
    /\ lander' = LanderUpdate(lander)
    /\ nticks' = nticks + 1
    /\ event' = Event("update", 0, FALSE)
    /\ UNCHANGED <<terrain, game_over, explosion, pads, nkeys>>

LanderApplyThrust ==
    /\ nkeys < MaxKeys
    /\ \E amount \in ThrustDraws :
          /\ lander' = ApplyThrust(lander, amount)
          /\ event' = Event("apply_thrust", amount, FALSE)
    /\ nkeys' = nkeys + 1
    /\ UNCHANGED <<terrain, game_over, explosion, pads, nticks>>

LanderRotate ==
    /\ nkeys < MaxKeys
    /\ \E amount \in RotateDraws :
          /\ lander' = Rotate(lander, amount)
          /\ event' = Event("rotate", amount, FALSE)
    /\ nkeys' = nkeys + 1
    /\ UNCHANGED <<terrain, game_over, explosion, pads, nticks>>

LanderCheckSafety ==
    /\ nkeys < MaxKeys
    /\ \E surface_angle \in SurfaceAngleDraws :
          /\ lander' = CheckLandingSafety(lander, surface_angle)
          /\ event' = Event("check_landing_safety", surface_angle, FALSE)
    /\ nkeys' = nkeys + 1
    /\ UNCHANGED <<terrain, game_over, explosion, pads, nticks>>

NextLander ==
    LanderTick \/ LanderApplyThrust \/ LanderRotate \/ LanderCheckSafety

SpecLander == InitLander /\ [][NextLander]_vars

----------------------------------------------------------------------------
(* The collision evaluator alone: Terrain::check_collision called on a    *)
(* lander the caller has placed near the terrain, between ticks           *)

\* x of the lander: over the pad at points 47..51, over the pads at points
\* 7..13, at either clamp bound, and with the left leg (at angle 0) exactly
\* above terrain point 12.
CollisionXDraws ==
    {START_X * PosOne, 100 * PosOne, 0, SCREEN_WIDTH * PosOne,
     TerrainX(12) + 15 * PosOne}

\* y of the lander, in pixels: above every height, and at depths where one
\* leg, both legs, or every leg inside the terrain's x-range is in the ground.
CollisionYDraws == {380, 478, 485, 520}

\* Angles: level, tilted by 0.3 either way, and lying on either side.
CollisionAngleDraws ==
    {0, 3 * ROTATE_STEP, -(3 * ROTATE_STEP),
     RoundF32(HALF_PI), RoundF32(3 * HALF_PI)}

\* Velocities: at rest, and falling at 5.0.
CollisionVelocityDraws == {[x |-> 0, y |-> 0], [x |-> 0, y |-> -(5 * VelOne)]}

InitCollision ==
    /\ terrain \in SessionTerrains
    /\ \E x \in CollisionXDraws, y \in CollisionYDraws,
          a \in CollisionAngleDraws, v \in CollisionVelocityDraws :
          lander = [LunarLanderNew(START_X, START_Y) EXCEPT
                       !.position = [x |-> x, y |-> y * PosOne],
                       !.velocity = v, !.angle = a]
    /\ game_over = FALSE
    /\ explosion = None
    /\ pads = SessionPads
    /\ event = Event("new", 0, FALSE)
    /\ nticks = 0
    /\ nkeys = 0

\* The effect of a call that returned cc.
Returned(cc) ==
    /\ lander' = cc.lander
    /\ event' = Event("check_collision", cc.collided, FALSE)

CollisionCheck ==
    /\ nkeys < MaxKeys
    /\ Returned(CheckCollision(terrain, lander))
    /\ nkeys' = nkeys + 1
    /\ UNCHANGED <<terrain, game_over, explosion, pads, nticks>>

NextCollision == CollisionCheck \/ LanderTick

SpecCollision == InitCollision /\ [][NextCollision]_vars

----------------------------------------------------------------------------
(* Properties *)

\* C1: fuel is never negative: in every state reached from a new lander by
\* ticks and thrust keys of either level, fuel >= 0.
FuelNeverNegative == lander.fuel >= 0

\* C2: whenever fuel is exactly 0 the thrust is 0, also on the tick on which
\* the fuel runs out while a thrust key is held.
NoThrustWithoutFuel == lander.fuel = 0 => lander.thrust = 0

\* C3: the angle stays in [0, 2*pi) after every rotate, whatever the sign of
\* the delta: after any sequence of Left and Right key-downs.
AngleInRange == lander.angle >= 0 /\ lander.angle < TWO_PI_F32

\* C4: once landing_safety_checked is true, no call of check_landing_safety,
\* with any surface angle and any velocity and angle of the lander, and no
\* tick, thrust or rotate call changes landing_safety_checked or
\* landed_safely.
VerdictFrozen ==
    [][lander.landing_safety_checked
          => /\ lander'.landing_safety_checked
             /\ lander'.landed_safely = lander.landed_safely]_vars

\* The verdict of the velocity and angle tests on the lander as it is now.
FreshVerdict(surface_angle) ==
    /\ lander.velocity.x * lander.velocity.x
         + lander.velocity.y * lander.velocity.y
       <= (MAX_SAFE_LANDING_VELOCITY * VelOne)
          * (MAX_SAFE_LANDING_VELOCITY * VelOne)
    /\ Abs(RoundF32(lander.angle - surface_angle)) <= MAX_SAFE_LANDING_ANGLE

\* A later call of check_landing_safety has kept a verdict that the tests,
\* applied to the lander of that call, would not give.
VerdictFrozenWitness ==
    /\ event.kind = "check_landing_safety"
    /\ lander.landing_safety_checked
    /\ lander.landed_safely # FreshVerdict(event.arg)

\* C5: the first call of check_landing_safety(surface_angle) sets
\* landed_safely to true exactly when the speed is <= 2.0 and
\* |angle - surface_angle| <= 0.15, both bounds included; on a flat segment
\* speed 1.0 at angle 0.05 is safe and speed 5.0 is not.  Nothing but the
\* velocity, the angle and the surface angle enters the verdict.
FirstVerdictRule ==
    [][(event'.kind = "check_landing_safety" /\ ~lander.landing_safety_checked)
          => /\ lander'.landing_safety_checked
             /\ lander'.landed_safely = FreshVerdict(event'.arg)
             /\ (/\ event'.arg = 0
                 /\ lander.velocity = [x |-> 0, y |-> -VelOne]
                 /\ lander.angle = 13421773) => lander'.landed_safely
             /\ (/\ event'.arg = 0
                 /\ lander.velocity = [x |-> 3 * VelOne, y |-> -(4 * VelOne)])
                    => ~lander'.landed_safely]_vars

\* A first call on a flat segment at speed exactly 2.0 and angle exactly
\* 0.15 has found the landing safe.
FirstVerdictWitness ==
    /\ event.kind = "check_landing_safety"
    /\ event.arg = 0
    /\ nkeys = 1
    /\ lander.velocity = [x |-> 0, y |-> -(MAX_SAFE_LANDING_VELOCITY * VelOne)]
    /\ lander.angle = MAX_SAFE_LANDING_ANGLE
    /\ lander.landed_safely

\* C6: while the game is not over a tick advances the lander and then runs
\* the collision check on it; once the game is over a tick advances only the
\* explosion, if there is one, and no tick and no key event but the R
\* key-down changes the lander or clears game_over.
TickAndFreeze ==
    [][/\ (~game_over /\ event'.kind = "update")
            => /\ lander'.position = LanderUpdate(lander).position
               /\ lander'.velocity = LanderUpdate(lander).velocity
               /\ lander'.fuel = LanderUpdate(lander).fuel
               /\ game_over' = (FirstHit(terrain, LanderUpdate(lander)) # <<>>)
               /\ lander'.landing_safety_checked = game_over'
       /\ (game_over /\ event'.kind = "update")
            => /\ explosion' = IF explosion = None THEN None
                               ELSE ExplosionUpdate(explosion)
               /\ terrain' = terrain
       /\ (game_over /\ ~(event'.kind = "key_down" /\ event'.arg = "R"))
            => /\ lander' = lander
               /\ game_over']_vars

\* A thrust key has gone down while the game was over, and so has a tick
\* passed on a crashed lander that still had its explosion.
TickAndFreezeWitness ==
    /\ game_over
    /\ event.over
    /\ \/ event.kind = "key_down" /\ event.arg = "Up"
       \/ event.kind = "update" /\ explosion # None /\ nkeys > 0

\* C7: an explosion is present exactly when the game is over and the
\* verdict is not safe.
ExplosionOnlyAfterCrash ==
    (explosion # None) <=> (game_over /\ ~lander.landed_safely)

\* A tick has found the collision, the verdict is not safe, and the
\* explosion stands with all its particles.
ExplosionOnlyAfterCrashWitness ==
    /\ event.kind = "update" /\ ~event.over
    /\ game_over
    /\ lander.landing_safety_checked /\ ~lander.landed_safely
    /\ explosion # None
    /\ Len(explosion.particles) = NUM_PARTICLES

\* C8: the R key-down, whether or not the game is over, puts the lander in
\* its start state (position (400, 100), zero velocity, angle 0, thrust 0,
\* fuel 100, verdict unchecked and not safe), clears game_over, discards the
\* explosion and keeps the terrain.
ResetRestoresStart ==
    [][(event'.kind = "key_down" /\ event'.arg = "R")
          => /\ lander' = [position |-> [x |-> 400 * PosOne, y |-> 100 * PosOne],
                           velocity |-> [x |-> 0, y |-> 0],
                           angle |-> 0,
                           thrust |-> 0,
                           fuel |-> 100 * FuelOne,
                           landing_safety_checked |-> FALSE,
                           landed_safely |-> FALSE]
             /\ ~game_over'
             /\ explosion' = None
             /\ terrain' = terrain]_vars

\* R has gone down on a game that was over, and the lander is at the start.
ResetRestoresStartWitness ==
    /\ event.kind = "key_down" /\ event.arg = "R"
    /\ event.over
    /\ lander.position = [x |-> 400 * PosOne, y |-> 100 * PosOne]
    /\ lander.fuel = 100 * FuelOne
    /\ nticks > 0

\* An explosion starts with exactly 100 live particles.
StartsWithAllParticles ==
    nticks = 0 => /\ Len(explosion.particles) = 100
                  /\ \A k \in 1..100 : IsAlive(explosion.particles[k])

\* C9, as stated: an explosion starts with exactly 100 live particles, and
\* after at most 90 calls of update its particle set is empty and
\* is_finished() is true, for every choice of lifetimes in [0.5, 1.5).
ExplosionEndsBy90 ==
    /\ StartsWithAllParticles
    /\ nticks >= 90 => (explosion.particles = <<>> /\ IsFinished(explosion))

\* C9, amended: the same with at most 91 calls.
ExplosionEndsBy91 ==
    /\ StartsWithAllParticles
    /\ nticks >= 91 => (explosion.particles = <<>> /\ IsFinished(explosion))

\* The 91st call has removed the last particle: the explosion is finished
\* after it, and no earlier call has found it finished.
ExplosionEndsBy91Witness ==
    /\ nticks = 91
    /\ IsFinished(explosion)
    /\ ~explosion.notified_finished

\* C10: once the three pads are placed, each pad's 5 consecutive points
\* share one y and are marked is_landing_pad, and every point outside all
\* pads is not marked, pads that overlap included.
PadsFlatAndMarked ==
    Len(pads) = NUM_PADS
      => /\ \A j \in 1..NUM_PADS : \A i \in pads[j]..(pads[j] + PAD_WIDTH - 1) :
               /\ Pt(terrain, i).is_landing_pad
               /\ Pt(terrain, i).position.y = Pt(terrain, pads[j]).position.y
         /\ \A i \in 0..(NUM_POINTS - 1) :
               (\A j \in 1..NUM_PADS : i < pads[j] \/ i >= pads[j] + PAD_WIDTH)
                  => ~Pt(terrain, i).is_landing_pad

\* C11: after every tick position.x lies in [0, 800]; a step that would
\* carry it below 0 or above 800 stores exactly 0 or exactly 800, a step
\* that stays inside stores the integrated value, and position.y is the
\* integrated value whatever it is.
HorizontalClamp ==
    [][event'.kind = "update"
          => /\ lander'.position.x >= 0
             /\ lander'.position.x <= 800 * PosOne
             /\ (lander.position.x + lander'.velocity.x < 0)
                   => lander'.position.x = 0
             /\ (lander.position.x + lander'.velocity.x > 800 * PosOne)
                   => lander'.position.x = 800 * PosOne
             /\ (/\ lander.position.x + lander'.velocity.x >= 0
                 /\ lander.position.x + lander'.velocity.x <= 800 * PosOne)
                   => lander'.position.x = lander.position.x + lander'.velocity.x
             /\ lander'.position.y = lander.position.y - lander'.velocity.y]_vars

\* A tick has stopped a lander moving left at x = 0 exactly, while its y
\* has gone above the top of the screen.
HorizontalClampWitness ==
    /\ event.kind = "update"
    /\ lander.position.x = 0
    /\ lander.velocity.x < 0
    /\ lander.position.y < 0

\* A tick has stopped a lander moving right at x = 800 exactly.
ClampedAtRightEdge ==
    /\ event.kind = "update"
    /\ lander.position.x = 800 * PosOne
    /\ lander.velocity.x > 0

\* C12: no tick, thrust key, rotate key, key-up or collision check raises
\* the fuel; only the R key-down, which replaces the lander, sets it back
\* to 100.
FuelNeverIncreases ==
    [][IF event'.kind = "key_down" /\ event'.arg = "R"
       THEN lander'.fuel = 100 * FuelOne
       ELSE lander'.fuel <= lander.fuel]_vars

\* A tick has burnt fuel, and the thrust is still on.
FuelNeverIncreasesWitness ==
    /\ event.kind = "update"
    /\ lander.thrust > 0
    /\ lander.fuel < 100 * FuelOne

\* Leg point `leg` lies in segment i of the terrain: its x is within the
\* segment's x-range and its y is at or below the surface there (y grows
\* downwards).
LegInSegment(leg, i) ==
    point_in_segment(leg, Pt(terrain, i).position, Pt(terrain, i + 1).position)

LegInTerrain(leg) == \E i \in 0..(NUM_POINTS - 2) : LegInSegment(leg, i)

\* C13: check_collision returns true exactly when one of the two leg
\* points lies in some terrain segment; when it returns true the verdict is
\* checked afterwards and nothing but the verdict has changed; when it
\* returns false the lander is unchanged; the terrain is unchanged.
CollisionContract ==
    [][event'.kind = "check_collision"
          => /\ event'.arg = (\/ LegInTerrain(GetLegsPoints(lander)[1])
                              \/ LegInTerrain(GetLegsPoints(lander)[2]))
             /\ terrain' = terrain
             /\ event'.arg => lander'.landing_safety_checked
             /\ event'.arg =>
                   lander' = [lander EXCEPT
                                !.landing_safety_checked = TRUE,
                                !.landed_safely = lander'.landed_safely]
             /\ ~event'.arg => lander' = lander]_vars

\* A first call has returned true for a lander whose right leg alone is in
\* the ground, and has checked the verdict.
CollisionContractWitness ==
    /\ event.kind = "check_collision"
    /\ event.arg
    /\ nkeys = 1
    /\ lander.landing_safety_checked
    /\ ~LegInTerrain(GetLegsPoints(lander)[1])
    /\ LegInTerrain(GetLegsPoints(lander)[2])

\* A call has returned false for a lander below every height whose legs
\* are both outside the terrain's x-range.
MissedBesideTerrain ==
    /\ event.kind = "check_collision"
    /\ ~event.arg
    /\ lander.position.y > HEIGHT_END * PosOne

\* The angle `after` is the angle `before` plus delta, to within the f32
\* rounding of the sum and a whole turn.
TurnedBy(before, after, delta) ==
    \E k \in {-1, 0, 1} : Abs(after - (before + delta) - k * TWO_PI_F32) <= 8

\* C14: while the game is not over, a key-up of Up or Space sets thrust to
\* 0 and changes nothing else; a key-up of any other key changes nothing;
\* a key-down of Up / Space with fuel > 0 sets thrust to 1.0 / 0.5 and
\* changes nothing else; a key-down of Left / Right turns the angle by
\* -0.1 / +0.1 once and changes nothing else.
LevelBasedThrust ==
    [][~game_over =>
        /\ (event'.kind = "key_up" /\ event'.arg \in {"Up", "Space"})
              => /\ lander' = [lander EXCEPT !.thrust = 0]
                 /\ UNCHANGED <<terrain, game_over, explosion>>
        /\ (event'.kind = "key_up" /\ event'.arg \notin {"Up", "Space"})
              => UNCHANGED <<lander, terrain, game_over, explosion>>
        /\ (event'.kind = "key_down" /\ event'.arg = "Up" /\ lander.fuel > 0)
              => lander' = [lander EXCEPT !.thrust = FuelOne]
        /\ (event'.kind = "key_down" /\ event'.arg = "Space" /\ lander.fuel > 0)
              => lander' = [lander EXCEPT !.thrust = FuelOne \div 2]
        /\ (event'.kind = "key_down" /\ event'.arg = "Left")
              => /\ lander' = [lander EXCEPT !.angle = lander'.angle]
                 /\ TurnedBy(lander.angle, lander'.angle, -ROTATE_STEP)
        /\ (event'.kind = "key_down" /\ event'.arg = "Right")
              => /\ lander' = [lander EXCEPT !.angle = lander'.angle]
                 /\ TurnedBy(lander.angle, lander'.angle, ROTATE_STEP)]_vars

\* A thrust key has been released in flight after a burn: the thrust is 0
\* again and fuel has been used.
LevelBasedThrustWitness ==
    /\ event.kind = "key_up" /\ event.arg \in {"Up", "Space"}
    /\ ~event.over
    /\ lander.thrust = 0
    /\ lander.fuel < 100 * FuelOne

\* The lowest-index segment leg point `leg` lies in.
LowestSegment(leg) ==
    CHOOSE i \in 0..(NUM_POINTS - 2) :
        /\ LegInSegment(leg, i)
        /\ \A j \in 0..(i - 1) : ~LegInSegment(leg, j)

\* The surface angle of segment i.
SegmentAngle(i) ==
    SurfaceAngle(Pt(terrain, i).position, Pt(terrain, i + 1).position)

\* The surface angle the tie-break selects for leg points left and right.
TieBreakAngle(left, right) ==
    IF LegInTerrain(left) THEN SegmentAngle(LowestSegment(left))
    ELSE SegmentAngle(LowestSegment(right))

\* C15: when check_collision finds a collision on an unchecked lander, the
\* verdict is the one for the surface angle of the left leg's lowest-index
\* qualifying segment if the left leg qualifies for any segment, and
\* otherwise of the right leg's lowest-index qualifying segment.
CollisionTieBreak ==
    [][(/\ event'.kind = "check_collision"
        /\ event'.arg
        /\ ~lander.landing_safety_checked)
          => lander'.landed_safely
               = FreshVerdict(TieBreakAngle(GetLegsPoints(lander)[1],
                                            GetLegsPoints(lander)[2]))]_vars

\* A first call has found both legs in the ground, on segments whose
\* angles give different verdicts, and the verdict is the left leg's.
CollisionTieBreakWitness ==
    /\ event.kind = "check_collision"
    /\ event.arg
    /\ nkeys = 1
    /\ LegInTerrain(GetLegsPoints(lander)[1])
    /\ LegInTerrain(GetLegsPoints(lander)[2])
    /\ FreshVerdict(SegmentAngle(LowestSegment(GetLegsPoints(lander)[1])))
         # FreshVerdict(SegmentAngle(LowestSegment(GetLegsPoints(lander)[2])))
    /\ lander.landed_safely
         = FreshVerdict(SegmentAngle(LowestSegment(GetLegsPoints(lander)[1])))

\* A first call has found the left leg exactly above a terrain point, in
\* the two segments that meet there, whose angles give different verdicts.
LeftLegOnTerrainPoint ==
    /\ event.kind = "check_collision"
    /\ event.arg
    /\ nkeys = 1
    /\ \E i \in 0..(NUM_POINTS - 3) :
          /\ LegInSegment(GetLegsPoints(lander)[1], i)
          /\ LegInSegment(GetLegsPoints(lander)[1], i + 1)
          /\ FreshVerdict(SegmentAngle(i)) # FreshVerdict(SegmentAngle(i + 1))

\* C16: apply_thrust(a) sets thrust to a clamped into [0, 1] when fuel > 0
\* and to 0 when fuel <= 0, and changes no other field; thrust lies in
\* [0, 1] after every step.
ThrustSetterContract ==
    [][/\ event'.kind = "apply_thrust"
            => lander' = [lander EXCEPT !.thrust =
                            IF lander.fuel <= 0 THEN 0
                            ELSE IF event'.arg < 0 THEN 0
                            ELSE IF event'.arg > FuelOne THEN FuelOne
                            ELSE event'.arg]
       /\ lander'.thrust >= 0
       /\ lander'.thrust <= FuelOne]_vars

\* Thrust has been requested from a lander that has burnt all its fuel,
\* and the thrust is 0.
ThrustSetterContractWitness ==
    /\ event.kind = "apply_thrust"
    /\ event.arg > 0
    /\ nticks > 0
    /\ lander.fuel <= 0
    /\ lander.thrust = 0

\* A request above 1 has been stored as 1.0.
ThrustClampedToOne ==
    /\ event.kind = "apply_thrust"
    /\ event.arg > FuelOne
    /\ lander.thrust = FuelOne

\* C17: a tick with fuel > 0 and thrust > 0 lowers fuel by exactly
\* thrust * 0.5 and changes the velocity by the thrust acceleration
\* (-thrust * cos(angle) * 3.5 * DT, thrust * sin(angle) * 3.5 * DT) and
\* gravity; a tick with thrust = 0 or fuel <= 0 leaves fuel and velocity.x
\* unchanged and lowers velocity.y by 1.62 * DT.  (350 and 162 are
\* 3.5 * DT and 1.62 * DT in velocity units; velocities are within one
\* unit of the real value.)
BurnOnlyWhileThrusting ==
    [][event'.kind = "update"
          => IF lander.fuel > 0 /\ lander.thrust > 0
             THEN /\ lander'.fuel = lander.fuel - (lander.thrust \div 2)
                  /\ lander'.fuel < lander.fuel
                  /\ Abs((lander.velocity.x - lander'.velocity.x) * FuelOne * TrigOne
                         - 350 * lander.thrust * Cos(lander.angle))
                       <= FuelOne * TrigOne
                  /\ Abs((lander'.velocity.y + 162 - lander.velocity.y) * FuelOne * TrigOne
                         - 350 * lander.thrust * Sin(lander.angle))
                       <= FuelOne * TrigOne
             ELSE /\ lander'.fuel = lander.fuel
                  /\ lander'.velocity.x = lander.velocity.x
                  /\ lander'.velocity.y = lander.velocity.y - 162]_vars

\* Ticks with the thrust on have burnt the fuel down to 0 or below and
\* pushed the lander to the left.
BurnOnlyWhileThrustingWitness ==
    /\ event.kind = "update"
    /\ nticks >= 2
    /\ lander.thrust > 0
    /\ lander.fuel <= 0
    /\ lander.velocity.x < 0

\* Particle `after` is particle `before` one update later: its remaining
\* lifetime is lower by DT, to within the f32 rounding of the difference.
AgedByDT(before, after) ==
    /\ after.initial_lifetime = before.initial_lifetime
    /\ after.lifetime < before.lifetime
    /\ Abs(before.lifetime - PARTICLE_DT - after.lifetime) <= 32

\* C18: each Explosion::update lowers every surviving particle's remaining
\* lifetime by DT, adds no particle, and leaves only particles with
\* remaining lifetime > 0 in the set.
LifetimesOnlyDecrease ==
    [][event'.kind = "update"
          => /\ Len(explosion'.particles) <= Len(explosion.particles)
             /\ \A k \in 1..Len(explosion'.particles) :
                   /\ explosion'.particles[k].lifetime > 0
                   /\ \E j \in k..Len(explosion.particles) :
                         AgedByDT(explosion.particles[j], explosion'.particles[k])
             /\ \A j \in 1..Len(explosion.particles) :
                   explosion.particles[j].lifetime > PARTICLE_DT + 32
                     => \E k \in 1..j :
                           /\ k <= Len(explosion'.particles)
                           /\ AgedByDT(explosion.particles[j],
                                       explosion'.particles[k])]_vars

\* An update has removed the particles whose lifetime ran out and kept
\* the others.
LifetimesOnlyDecreaseWitness ==
    /\ event.kind = "update"
    /\ Len(explosion.particles) > 0
    /\ Len(explosion.particles) < NUM_PARTICLES
    /\ \A k \in 1..Len(explosion.particles) :
          explosion.particles[k].lifetime > 0

\* C19: from every session state in which the game is not over, ticks
\* alone lead to a state in which it is.
DescentEnds == ~game_over ~> game_over

\* A lander that burnt all its fuel with the thrust turned upwards has come
\* down and ended the game.
DescentEndsWitness ==
    /\ game_over
    /\ nkeys = MaxDescentKeys
    /\ lander.angle > AngleOne
    /\ lander.fuel <= 0

\* C20: the game is over exactly when the lander's verdict has been
\* computed.
GameOverIffChecked == game_over <=> lander.landing_safety_checked

\* The tick that found the collision has ended the game with the verdict
\* computed.
GameOverIffCheckedWitness ==
    /\ event.kind = "update" /\ ~event.over
    /\ game_over
    /\ lander.landing_safety_checked

\* A reset after a crash has cleared both.
BothClearedByReset ==
    /\ event.kind = "key_down" /\ event.arg = "R" /\ event.over
    /\ ~game_over
    /\ ~lander.landing_safety_checked

\* Explosion e has just been created: all its particles are there, none
\* has aged.
JustCreated(e) ==
    /\ Len(e.particles) = NUM_PARTICLES
    /\ \A k \in 1..NUM_PARTICLES :
          e.particles[k].lifetime = e.particles[k].initial_lifetime

\* C21: game_over is cleared by the R key-down only: once true it stays
\* true through every tick and every other key event.  An explosion is
\* created only by the tick that ends the game, so at most once between
\* two resets; a tick never replaces an explosion there is, and only the
\* R key-down removes it.
GameOverLatched ==
    [][/\ (game_over /\ ~(event'.kind = "key_down" /\ event'.arg = "R"))
            => game_over'
       /\ (explosion = None /\ explosion' # None)
            => /\ event'.kind = "update"
               /\ ~game_over /\ game_over'
               /\ JustCreated(explosion')
       /\ (explosion # None /\ ~(event'.kind = "key_down" /\ event'.arg = "R"))
            => /\ explosion' # None
               /\ (event'.kind = "update" => ~JustCreated(explosion'))
               /\ (event'.kind # "update" => explosion' = explosion)]_vars

\* A tick on a game that was over has aged the explosion of the crash,
\* which still has particles.
GameOverLatchedWitness ==
    /\ event.kind = "update" /\ event.over
    /\ game_over
    /\ explosion # None
    /\ explosion.particles # <<>>
    /\ ~JustCreated(explosion)

====
